---- MODULE Spec2Model ----
(***************************************************************************)
(* A model of the flyte-client pack: registration with retry (pack.go),    *)
(* the action poll loop and the per-action execution units (commands.go),  *)
(* and the outcomes of the client calls they make (client.go).             *)
(***************************************************************************)
EXTENDS Integers, Sequences, FiniteSets, TLC

(***************************************************************************)
(* Bounds of the model.                                                    *)
(***************************************************************************)
\* most calls of CreatePack and TakeAction together in one behaviour
MaxCalls == 4
\* most actions the server hands out in one behaviour
MaxActions == 2

(***************************************************************************)
(* Go values carried as payloads and panic values: a dynamic kind and the  *)
(* value written as text.                                                  *)
(***************************************************************************)
GoNil == [kind |-> "nil", lit |-> ""]
GoString(s) == [kind |-> "string", lit |-> s]
GoInt(n) == [kind |-> "int", lit |-> ToString(n)]
GoError(msg) == [kind |-> "error", lit |-> msg]

\* runtime error raised by calling a nil func value
NilDerefError == GoError("runtime error: invalid memory address or nil pointer dereference")
\* the value recover() yields for panic(nil) when built with go >= 1.21 semantics
PanicNilError == GoError("panic called with nil argument (obsolete runtime behavior)")

\* fmt.Sprintf("%v", r): the text of r, always a Go string
Sprintf_v(r) ==
    IF r.kind = "nil" THEN GoString("<nil>") ELSE GoString(r.lit)

(***************************************************************************)
(* pack.go                                                                 *)
(***************************************************************************)
fatalEventName == "FATAL"
\* NewPack: pollingFrequency, in seconds
pollingFrequency == 5

\* flyte.Event{EventDef: EventDef{Name: name}, Payload: payload}
Event(name, payload) == [EventDef |-> [Name |-> name], Payload |-> payload]

NewFatalEvent(payload) == Event(fatalEventName, payload)

\* a handler that is declared but nil
NilHandler == "nil"
\* a command name the server may send that no pack declares
UnknownCommand == "Unknown"
\* the input payload of the n-th action the server hands out
InputOf(n) == << "input", n >>

Command(name, handler) == [Name |-> name, Handler |-> handler]

\* the command lists of the packs that are checked
CommandLists ==
    { << >>,
      << Command("RunBuild", "h1") >>,
      << Command("RunBuild", "h2") >>,
      << Command("RunBuild", "h3") >>,
      << Command("RunBuild", NilHandler) >>,
      << Command("RunBuild", "h1"), Command("Deploy", "h4") >>,
      << Command("RunBuild", "h4"), Command("RunBuild", "h2") >>,
      << Command("RunBuild", "h5"), Command("Deploy", "h4") >> }

\* The handlers are the pack author's functions; any of them may also never
\* return.  "h1" returns an event or panics with a string, "h2" returns an
\* event built with NewFatalEvent or panics with an integer, "h3" panics
\* with nil, "h4" returns an event, "h5" neither returns nor panics.
ReturnEvents(h) ==
    CASE h = "h1" -> { Event("BuildSuccess", GoString("ok")) }
      [] h = "h2" -> { NewFatalEvent(GoString("build failed")) }
      [] h = "h4" -> { Event("Deployed", GoInt(7)) }
      [] OTHER -> {}

PanicValues(h) ==
    CASE h = "h1" -> { GoString("ARGGHHHHH!") }
      [] h = "h2" -> { GoInt(42) }
      [] h = "h3" -> { GoNil }
      [] OTHER -> {}

(***************************************************************************)
(* client.go: the outcome of each client call, from the server's answer.   *)
(***************************************************************************)
\* answers to the POST of the pack definition; links are the rels the
\* decoded response carries
CreatePackResponses ==
    { [status |-> "transportError", decodes |-> FALSE, links |-> {}],
      [status |-> "500", decodes |-> FALSE, links |-> {}],
      [status |-> "200", decodes |-> TRUE, links |-> {"event", "takeAction"}],
      [status |-> "201", decodes |-> FALSE, links |-> {}],
      [status |-> "201", decodes |-> TRUE, links |-> {"takeAction"}],
      [status |-> "201", decodes |-> TRUE, links |-> {"event"}],
      [status |-> "201", decodes |-> TRUE, links |-> {"event", "takeAction"}] }

\* registerPack: nil only for a 201 whose body decodes
registerPack(resp) ==
    IF resp.status = "201" /\ resp.decodes THEN "nil" ELSE "error"

\* mutant: CreatePack does without the takeAction link
CreatePack_takeActionOptional(resp, urls) ==
    IF registerPack(resp) # "nil"
    THEN [err |-> "error", urls |-> urls]
    ELSE IF "event" \notin resp.links
    THEN [err |-> "error", urls |-> [urls EXCEPT !.events = FALSE]]
    ELSE [err |-> "nil",
          urls |-> [events |-> TRUE,
                    takeAction |-> "takeAction" \in resp.links]]

\* mutant: a CreatePack that fails leaves the urls of the client alone
CreatePack_failureKeepsUrls(resp, urls) ==
    IF /\ registerPack(resp) = "nil"
       /\ {"event", "takeAction"} \subseteq resp.links
    THEN [err |-> "nil", urls |-> [events |-> TRUE, takeAction |-> TRUE]]
    ELSE [err |-> "error", urls |-> urls]

\* CreatePack: the error it returns and the urls it leaves in the client
CreatePack(resp, urls) ==
    IF registerPack(resp) # "nil"
    THEN [err |-> "error", urls |-> urls]
    ELSE IF "event" \notin resp.links
    THEN [err |-> "error", urls |-> [urls EXCEPT !.events = FALSE]]
    ELSE IF "takeAction" \notin resp.links
    THEN [err |-> "error", urls |-> [events |-> TRUE, takeAction |-> FALSE]]
    ELSE [err |-> "nil", urls |-> [events |-> TRUE, takeAction |-> TRUE]]

\* answers to the POST that takes the next action
TakeActionResponses ==
    { "transportError", "200", "200undecodable", "204", "404", "500" }

Action(cmd, input) == [CommandName |-> cmd, Input |-> input]

\* mutant: a 404 is an error like any other
TakeAction_notFoundOrdinary(resp, urls, a) ==
    IF ~urls.takeAction
    THEN [action |-> <<>>, err |-> "takeActionURL not initialised"]
    ELSE CASE resp = "200" -> [action |-> <<a>>, err |-> "nil"]
           [] resp = "200undecodable" -> [action |-> <<a>>, err |-> "error"]
           [] resp = "204" -> [action |-> <<>>, err |-> "nil"]
           [] OTHER -> [action |-> <<>>, err |-> "error"]

\* mutant: TakeAction posts to the nil url and reports the failed request
TakeAction_noUrlCheck(resp, urls, a) ==
    CASE resp = "200" /\ urls.takeAction -> [action |-> <<a>>, err |-> "nil"]
      [] resp = "200undecodable" /\ urls.takeAction ->
           [action |-> <<a>>, err |-> "error"]
      [] resp = "204" /\ urls.takeAction -> [action |-> <<>>, err |-> "nil"]
      [] resp = "404" /\ urls.takeAction ->
           [action |-> <<>>, err |-> "NotFoundError"]
      [] OTHER -> [action |-> <<>>, err |-> "error"]

\* TakeAction: (action, err); the action is a sequence of length 0 (a nil
\* pointer) or 1
TakeAction(resp, urls, a) ==
    IF ~urls.takeAction
    THEN [action |-> <<>>, err |-> "takeActionURL not initialised"]
    ELSE CASE resp = "transportError" -> [action |-> <<>>, err |-> "error"]
           [] resp = "200" -> [action |-> <<a>>, err |-> "nil"]
           [] resp = "200undecodable" -> [action |-> <<a>>, err |-> "error"]
           [] resp = "204" -> [action |-> <<>>, err |-> "nil"]
           [] resp = "404" -> [action |-> <<>>, err |-> "NotFoundError"]
           [] OTHER -> [action |-> <<>>, err |-> "error"]

\* answers to the POST of an action result
CompleteActionResponses == { "transportError", "202", "500" }

\* CompleteAction: nil only when the result was accepted
CompleteAction(resp) == IF resp = "202" THEN "nil" ELSE "error"

\* answers to the POST of an event
PostEventResponses == { "transportError", "202", "500" }

\* PostEvent: the requests it sends and the error it returns; without an
\* events url nothing is sent
PostEvent(resp, urls, event) ==
    IF ~urls.events
    THEN [posted |-> << >>, err |-> "eventsURL not initialised"]
    ELSE [posted |-> << event >>,
          err |-> CASE resp = "transportError" -> "error posting event"
                    [] resp = "202" -> "nil"
                    [] OTHER -> "event not accepted"]

(***************************************************************************)
(* State                                                                   *)
(***************************************************************************)
\* the calls of Start the program makes
StartCalls == {"main"}

VARIABLES
    Commands,         \* PackDef.Commands of the pack
    StartHealthCheckServer, \* the package variable of that name
    startSteps,       \* the steps the calls of Start have run, in order
    urls,             \* client.eventsURL and client.takeActionURL are set
    startPc,          \* where each call of Start is
    createPackCalls,  \* CreatePack calls made so far
    regFailures,      \* CreatePack calls that returned an error
    pollPc,           \* where the poll loop each Start launched is
    handlers,         \* the handlers map of each poll loop
    takeActionCalls,  \* TakeAction calls issued so far
    takeInFlight,     \* TakeAction calls issued and not yet returned
    pollResults,      \* the (action, err) each TakeAction call returned
    execs,            \* one execution unit per dispatched action
    sleeps,           \* the duration of each sleep of the poll loops
    sends,            \* one record per call of SendEvent
    logs,             \* the messages logged
    exited,           \* logger.Fatal has ended the process
    \* register.go, checked on its own
    packDef,          \* PackDef.EventDefs and the commands' OutputEvents
    sentPack,         \* the client.Pack handed to CreatePack
    \* client.go, checked on its own
    client,           \* the fields of the client struct
    clientPc,         \* where newClient is
    requests,         \* the http requests sent, in order
    apiLinksErrors,   \* errors logged by getApiLinks
    lastCall,         \* the last call of a Client method and its result
    \* healthcheck/health.go, checked on its own
    healthChecks,     \* the checks given to healthcheck.Start
    healthResponse    \* what the handler wrote for the last request

\* the running pack
packVars == << Commands, StartHealthCheckServer, startSteps, urls, startPc, createPackCalls, regFailures, pollPc,
               handlers, takeActionCalls, takeInFlight, pollResults, execs,
               sleeps, sends, logs, exited >>
registerVars == << packDef, sentPack >>
clientVars == << client, clientPc, requests, apiLinksErrors, lastCall >>
healthVars == << healthChecks, healthResponse >>
\* the parts that are checked on their own
partVars == << registerVars, clientVars, healthVars >>

vars == << packVars, partVars >>

startVars == << startPc, createPackCalls, regFailures, urls, startSteps >>
pollVars == << pollPc, handlers, takeActionCalls, takeInFlight, pollResults,
              sleeps >>

\* the calls of CreatePack, TakeAction and SendEvent made so far
CallsMade == createPackCalls + takeActionCalls + Len(sends)

Log(level, msg) == [level |-> level, msg |-> msg]

\* the command names the server may put in an action: those the pack
\* declared and one it did not
ServerCommandNames ==
    { Commands[i].Name : i \in DOMAIN Commands } \cup { UnknownCommand }

\* a map[string]CommandHandler without entries
EmptyMap == [n \in {} |-> NilHandler]

\* mutant: an entry that exists is kept
MapPut_keepFirst(m, k, v) ==
    [x \in DOMAIN m \cup {k} |-> IF x \in DOMAIN m THEN m[x] ELSE v]

\* m[k] = v of a Go map
MapPut(m, k, v) == [x \in DOMAIN m \cup {k} |-> IF x = k THEN v ELSE m[x]]

RECURSIVE putCommands(_, _)
putCommands(m, cs) ==
    IF cs = << >> THEN m
    ELSE putCommands(MapPut(m, Head(cs).Name, Head(cs).Handler), Tail(cs))

\* createHandlersMap: commandName -> handler, in the order of p.Commands
createHandlersMap(cs) == putCommands(EmptyMap, cs)

\* the rels of the links the flyte api serves
ApiRels == { "pack/listPacks", "info/health" }

\* no call of a Client method yet
NoCall == [op |-> "none"]

\* register.go, client.go and health.go are checked on their own: here the
\* pack has no declared events, the client is the one newClient returned
\* and no health check is registered
RegisterIdle ==
    /\ packDef = [EventDefs |-> << >>, Commands |-> << >>]
    /\ sentPack = << >>

ClientIdle ==
    /\ client = [eventsURL |-> FALSE, takeActionURL |-> FALSE,
                 apiLinks |-> ApiRels, jwt |-> ""]
    /\ clientPc = "ready"
    /\ requests = << >>
    /\ apiLinksErrors = 0
    /\ lastCall = NoCall

HealthIdle ==
    /\ healthChecks = << >>
    /\ healthResponse = << >>

Init ==
    /\ RegisterIdle
    /\ ClientIdle
    /\ HealthIdle
    /\ Commands \in CommandLists
    /\ StartHealthCheckServer = TRUE
    /\ startSteps = << >>
    /\ urls = [events |-> FALSE, takeAction |-> FALSE]
    /\ startPc = [s \in StartCalls |-> "register"]
    /\ createPackCalls = 0
    /\ regFailures = 0
    /\ pollPc = [s \in StartCalls |-> "none"]
    /\ handlers = [s \in StartCalls |-> EmptyMap]
    /\ takeActionCalls = 0
    /\ takeInFlight = 0
    /\ pollResults = << >>
    /\ execs = << >>
    /\ sleeps = << >>
    /\ sends = << >>
    /\ logs = {}
    /\ exited = FALSE

\* the pack of the parts that are checked on their own: not started
PackIdle ==
    /\ Commands = << >>
    /\ StartHealthCheckServer = TRUE
    /\ startSteps = << >>
    /\ urls = [events |-> FALSE, takeAction |-> FALSE]
    /\ startPc = [s \in StartCalls |-> "register"]
    /\ createPackCalls = 0
    /\ regFailures = 0
    /\ pollPc = [s \in StartCalls |-> "none"]
    /\ handlers = [s \in StartCalls |-> EmptyMap]
    /\ takeActionCalls = 0
    /\ takeInFlight = 0
    /\ pollResults = << >>
    /\ execs = << >>
    /\ sleeps = << >>
    /\ sends = << >>
    /\ logs = {}
    /\ exited = FALSE

(***************************************************************************)
(* pack.go: Start                                                          *)
(***************************************************************************)
\* mutant: the poll loop is launched whatever the pack declares
LaunchesPollLoop_always(cs) == Len(cs) >= 0

\* handleCommands launches the poll loop when the pack declares a command
LaunchesPollLoop(cs) == Len(cs) > 0

\* mutant: Start registers again whatever p.register() returned
RegisterOutcome_retryAlways(err) == "retry"

\* mutant: Start goes on whatever p.register() returned
RegisterOutcome_ignoreError(err) == "registered"

\* what Start does with the error of p.register()
RegisterOutcome(err) == IF err # "nil" THEN "retry" ELSE "registered"

\* mutant: Start runs the poll loop itself
StartAfterRegistered_blocks(cs) ==
    IF Len(cs) > 0 THEN "polling" ELSE "returned"

\* where Start is once the pack is registered: handleCommands launches the
\* poll loop with `go`, healthcheck.Start launches the server with `go`, and
\* Start returns
StartAfterRegistered(cs) == "returned"

\* the steps of Start, as they are recorded in startSteps
RegisterStep(s, err) == [call |-> s, op |-> "register", err |-> err]
HandleCommandsStep(s) == [call |-> s, op |-> "handleCommands", err |-> "nil"]
HealthCheckStartStep(s) ==
    [call |-> s, op |-> "healthcheck.Start", err |-> "nil"]

\* startHealthCheckServer
startHealthCheckServer(s, toggle) ==
    IF toggle = TRUE THEN << HealthCheckStartStep(s) >> ELSE << >>

\* mutant: the health check server is started before the dispatcher
AfterRegistered_healthFirst(s, toggle) ==
    startHealthCheckServer(s, toggle) \o << HandleCommandsStep(s) >>

\* mutant: the health check server is started whatever the toggle says
AfterRegistered_toggleIgnored(s, toggle) ==
    << HandleCommandsStep(s) >> \o startHealthCheckServer(s, TRUE)

\* what Start runs once p.register() has returned nil
AfterRegistered(s, toggle) ==
    << HandleCommandsStep(s) >> \o startHealthCheckServer(s, toggle)

\* the passes of the call s of Start whose p.register() failed
FailedPasses(steps, s) ==
    Cardinality({ k \in DOMAIN steps : /\ steps[k].call = s
                                       /\ steps[k].op = "register"
                                       /\ steps[k].err # "nil" })

RECURSIVE Repeat(_, _)
Repeat(seq, n) == IF n = 0 THEN << >> ELSE seq \o Repeat(seq, n - 1)

\* mutant: without the return after the recursive call, every outer
\* invocation goes on once the inner one has returned
Unwind_noReturn(s, toggle, k) == Repeat(AfterRegistered(s, toggle), k)

\* what the k outer invocations of Start run once the innermost one has
\* returned: each returns right after its recursive call
Unwind(s, toggle, k) == << >>

\* One pass of Start.  A failed p.register() is logged and Start sleeps
\* registerRetryWait; after a successful one handleCommands launches the poll
\* loop, the health check server is started, and Start returns.
Start(s) ==
    /\ ~exited
    /\ startPc[s] = "register"
    /\ CallsMade < MaxCalls
    /\ \E resp \in CreatePackResponses :
         LET r == CreatePack(resp, urls) IN
         /\ createPackCalls' = createPackCalls + 1
         /\ urls' = r.urls
         /\ regFailures' = IF r.err # "nil" THEN regFailures + 1
                            ELSE regFailures
         /\ IF RegisterOutcome(r.err) = "retry"
            THEN /\ logs' = logs \cup {Log("error", "cannot register pack")}
                 /\ startPc' = [startPc EXCEPT ![s] = "retryWait"]
                 /\ startSteps' = Append(startSteps, RegisterStep(s, r.err))
                 /\ UNCHANGED << pollPc, handlers >>
            ELSE /\ logs' = logs
                 /\ startPc' = [startPc EXCEPT ![s] =
                                   StartAfterRegistered(Commands)]
                 /\ startSteps' =
                      Append(startSteps, RegisterStep(s, r.err))
                        \o AfterRegistered(s, StartHealthCheckServer)
                        \o Unwind(s, StartHealthCheckServer,
                                  FailedPasses(startSteps, s))
                 /\ IF LaunchesPollLoop(Commands)
                    THEN /\ pollPc' = [pollPc EXCEPT ![s] = "take"]
                         /\ handlers' = [handlers EXCEPT ![s] =
                                            createHandlersMap(Commands)]
                    ELSE UNCHANGED << pollPc, handlers >>
    /\ UNCHANGED << partVars, Commands, StartHealthCheckServer, takeActionCalls, takeInFlight, pollResults,
                    execs, sleeps, sends, exited >>

\* time.Sleep(registerRetryWait) is over: Start calls itself
RetryStart(s) ==
    /\ ~exited
    /\ startPc[s] = "retryWait"
    /\ startPc' = [startPc EXCEPT ![s] = "register"]
    /\ UNCHANGED << partVars, Commands, StartHealthCheckServer, urls,
                    createPackCalls, regFailures, startSteps, pollVars, execs,
                    sends, logs, exited >>

(***************************************************************************)
(* commands.go: the poll loop                                              *)
(***************************************************************************)
\* mutant: the next TakeAction does not wait for the one in flight
CanTakeAction_noWait(s) == pollPc[s] \in {"take", "inflight"}

\* mutant: handleAction is called without `go`, so the loop waits for it
CanTakeAction_afterHandler(s) ==
    /\ pollPc[s] = "take"
    /\ \A i \in DOMAIN execs :
         execs[i].pc \in {"Completed", "CompletionFailed", "Ended"}

\* mutant: a handler's panic ends the poll loop
CanTakeAction_untilPanic(s) ==
    /\ pollPc[s] = "take"
    /\ \A i \in DOMAIN execs : execs[i].panicked = << >>

\* mutant: the poll loops share a lock that admits one TakeAction at a time
CanTakeAction_oneInFlight(s) == pollPc[s] = "take" /\ takeInFlight = 0

\* the loop calls TakeAction only from the top of getNextAction's loop
CanTakeAction(s) == pollPc[s] = "take"

\* p.client.TakeAction() is called
IssueTakeAction(s) ==
    /\ ~exited
    /\ CanTakeAction(s)
    /\ CallsMade < MaxCalls
    /\ takeActionCalls' = takeActionCalls + 1
    /\ takeInFlight' = takeInFlight + 1
    /\ pollPc' = [pollPc EXCEPT ![s] = "inflight"]
    /\ UNCHANGED << partVars, Commands, StartHealthCheckServer, startVars, handlers, pollResults, execs,
                    sleeps, sends, logs, exited >>

\* mutant: every error ends the process, not only NotFoundError
NextActionStep_anyErrorFatal(r) ==
    IF r.err # "nil" THEN "fatal"
    ELSE IF r.action = << >> THEN "none"
    ELSE "return"

\* mutant: NotFoundError is handled like any other error
NextActionStep_notFoundRetried(r) ==
    IF r.err # "nil" THEN "error"
    ELSE IF r.action = << >> THEN "none"
    ELSE "return"

\* mutant: the loop gives up when no action is pending
NextActionStep_emptyFatal(r) ==
    IF r.err = "NotFoundError" \/ (r.err = "nil" /\ r.action = << >>)
    THEN "fatal"
    ELSE IF r.err # "nil" THEN "error"
    ELSE "return"

\* mutant: an action that came with an error is dispatched all the same
NextActionStep_errorIgnored(r) ==
    IF r.err = "NotFoundError" THEN "fatal"
    ELSE IF r.action # << >> THEN "return"
    ELSE IF r.err # "nil" THEN "error"
    ELSE "none"

\* mutant: an action that came with an error ends the process
NextActionStep_partialFatal(r) ==
    IF r.err = "NotFoundError" \/ (r.err # "nil" /\ r.action # << >>)
    THEN "fatal"
    ELSE IF r.err # "nil" THEN "error"
    ELSE IF r.action = << >> THEN "none"
    ELSE "return"

\* what getNextAction does with (a, err): "fatal" (logger.Fatal), "error"
\* (log, sleep, poll again), "none" (sleep, poll again) or "return"
NextActionStep(r) ==
    IF r.err = "NotFoundError" THEN "fatal"
    ELSE IF r.err # "nil" THEN "error"
    ELSE IF r.action = << >> THEN "none"
    ELSE "return"

\* mutant: the sleep grows with the number of unsuccessful polls
SleepDuration_backoff(slept) == pollingFrequency * (slept + 1)

\* how long getNextAction sleeps before it polls again, after `slept`
\* earlier sleeps
SleepDuration(slept) == pollingFrequency

\* the execution unit `go p.handleAction(a, handlers)` creates
NewExec(s, a, poll) ==
    [ loop |-> s, cmd |-> a.CommandName, input |-> a.Input, poll |-> poll,
      pc |-> "Fetched", via |-> "", invoked |-> << >>, returned |-> << >>,
      panicked |-> << >>, completions |-> << >> ]

\* TakeAction returns; getNextAction exits the process, sleeps, or returns
\* the action to handleCommandActions, which starts its execution unit
TakeActionReturns(s) ==
    /\ ~exited
    /\ pollPc[s] = "inflight"
    /\ takeInFlight > 0
    /\ \E resp \in TakeActionResponses, cmd \in ServerCommandNames :
         LET r == TakeAction(resp, urls, Action(cmd, InputOf(Len(execs) + 1)))
             step == NextActionStep(r)
         IN
         \* the server hands out MaxActions actions at most
         /\ step = "return" => Len(execs) < MaxActions
         \* one command name and input stand for the answers without action
         /\ step # "return" => cmd = UnknownCommand
         /\ takeInFlight' = takeInFlight - 1
         /\ pollResults' = Append(pollResults, r)
         /\ CASE step = "fatal" ->
                   /\ logs' = logs \cup
                        {Log("fatal", "Pack not found while polling for actions. Exiting.")}
                   /\ exited' = TRUE
                   /\ UNCHANGED << pollPc, execs, sleeps >>
              [] step \in {"error", "none"} ->
                   /\ logs' = IF step = "error"
                              THEN logs \cup {Log("info", "could not take action")}
                              ELSE logs
                   /\ pollPc' = [pollPc EXCEPT ![s] = "sleep"]
                   /\ sleeps' = Append(sleeps, SleepDuration(Len(sleeps)))
                   /\ UNCHANGED << execs, exited >>
              [] OTHER ->
                   /\ execs' = Append(execs, NewExec(s, r.action[1], takeActionCalls))
                   /\ pollPc' = [pollPc EXCEPT ![s] = "take"]
                   /\ UNCHANGED << sleeps, logs, exited >>
    /\ UNCHANGED << partVars, Commands, StartHealthCheckServer, startVars, handlers, takeActionCalls, sends >>

\* time.Sleep(p.pollingFrequency) is over
PollWake(s) ==
    /\ ~exited
    /\ pollPc[s] = "sleep"
    /\ pollPc' = [pollPc EXCEPT ![s] = "take"]
    /\ UNCHANGED << partVars, Commands, StartHealthCheckServer, startVars, handlers, takeActionCalls,
                    takeInFlight, pollResults, execs, sleeps, sends, logs,
                    exited >>

(***************************************************************************)
(* commands.go: the execution unit of one action                           *)
(***************************************************************************)
\* the error handleAction builds when the map has no entry for the command
NoHandlerError(cmd, hs) ==
    [kind |-> "error", lit |-> "no handler could be found for command",
     cmd |-> cmd, in |-> DOMAIN hs]

\* err.Error() as a Go string
ErrorText(e) == [e EXCEPT !.kind = "string"]

\* mutant: the action without handler is completed with an ordinary event
NoHandlerEvent_notFatal(cmd, hs) ==
    Event("NoHandler", ErrorText(NoHandlerError(cmd, hs)))

\* the event an action without handler is completed with
NoHandlerEvent(cmd, hs) == NewFatalEvent(ErrorText(NoHandlerError(cmd, hs)))

\* mutant: the payload is left out of the client event
ClientEvent_noPayload(event) == [Name |-> event.EventDef.Name, Payload |-> GoNil]

\* client.Event{Name: event.EventDef.Name, Payload: event.Payload}
ClientEvent(event) == [Name |-> event.EventDef.Name, Payload |-> event.Payload]

\* completeAction up to its call of CompleteAction, which is in flight after
CallCompleteAction(x, event) ==
    [x EXCEPT !.pc = "Completing",
              !.completions = Append(@, [action |-> Action(x.cmd, x.input),
                                         event |-> ClientEvent(event)])]

\* what recover() yields in handlePanic for a panic with v: panic(nil) yields
\* nil or a *runtime.PanicNilError, as the program was built
Recovered(v) == IF v = GoNil THEN {GoNil, PanicNilError} ELSE {v}

\* mutant: the fatal event of a recovered panic carries no payload
handlePanic_noPayload(x, r) ==
    IF r # GoNil
    THEN CallCompleteAction(x, NewFatalEvent(GoNil))
    ELSE [x EXCEPT !.pc = "Ended"]

\* mutant: handlePanic completes the action whatever recover() yields
handlePanic_nilCompleted(x, r) ==
    CallCompleteAction(x, NewFatalEvent(Sprintf_v(r)))

\* handlePanic with r = recover() non-nil, or with r nil
handlePanic(x, r) ==
    IF r # GoNil
    THEN CallCompleteAction(x, NewFatalEvent(Sprintf_v(r)))
    ELSE [x EXCEPT !.pc = "Ended"]

\* the execution units whose handler has panicked so far
PanickedUnits == { i \in DOMAIN execs : execs[i].panicked # << >> }

\* mutant: a panic in one unit stops the other ones
UnitRuns_panicStopsOthers(i) ==
    i \in DOMAIN execs /\ PanickedUnits \subseteq {i}

\* mutant: one worker handles the actions one after the other
UnitRuns_oneWorker(i) ==
    /\ i \in DOMAIN execs
    /\ \A j \in 1..(i - 1) :
         execs[j].pc \in {"Completed", "CompletionFailed", "Ended"}

\* mutant: a unit waits until the actions fetched before its own have made
\* their completion call
UnitRuns_inFetchOrder(i) ==
    /\ i \in DOMAIN execs
    /\ \A j \in 1..(i - 1) :
         execs[j].completions # << >> \/ execs[j].pc = "Ended"

\* mutant: the units are run by a pool that executes one action at a time
UnitRuns_poolOfOne(i) ==
    /\ i \in DOMAIN execs
    /\ execs[i].pc = "Fetched" =>
         \A j \in DOMAIN execs : execs[j].pc \notin {"Executing", "Completing"}

\* mutant: the units are run by the poll loop's goroutine, between two polls
UnitRuns_betweenPolls(i) ==
    i \in DOMAIN execs /\ pollPc[execs[i].loop] = "take"

\* the goroutine of the i-th dispatched action runs from its dispatch on,
\* whatever the other ones do
UnitRuns(i) == i \in DOMAIN execs

\* mutant: a failed CompleteAction call is made again
completeActionEnd_retry(x, err) ==
    IF err = "nil" THEN [x EXCEPT !.pc = "Completed"]
    ELSE [x EXCEPT !.completions = Append(@, @[Len(@)])]

\* how completeAction ends once CompleteAction returned err
completeActionEnd(x, err) ==
    [x EXCEPT !.pc = IF err = "nil" THEN "Completed" ELSE "CompletionFailed"]

\* mutant: looking a command up takes its entry out of the map
handlersAfterLookup_deletes(hs, cmd) == [n \in DOMAIN hs \ {cmd} |-> hs[n]]

\* the handlers map after handleAction's `handlers[a.CommandName]`: the map
\* is only read
handlersAfterLookup(hs, cmd) == hs

\* handleAction up to the handler's invocation: without a handler for the
\* command the action is completed with a fatal event; calling a nil handler
\* panics
handleAction(i) ==
    /\ ~exited
    /\ UnitRuns(i)
    /\ execs[i].pc = "Fetched"
    /\ LET x == execs[i]
           hs == handlers[x.loop]
       IN
       /\ handlers' = [handlers EXCEPT ![x.loop] =
                         handlersAfterLookup(hs, x.cmd)]
       /\ execs' = [execs EXCEPT ![i] =
           IF x.cmd \notin DOMAIN hs
           THEN CallCompleteAction([x EXCEPT !.via = "NoHandler"],
                                   NoHandlerEvent(x.cmd, hs))
           ELSE IF hs[x.cmd] = NilHandler
           THEN handlePanic([x EXCEPT !.via = "Panicked",
                                      !.panicked = << NilDerefError >>],
                            NilDerefError)
           ELSE [x EXCEPT !.pc = "Executing",
                          !.invoked = Append(@, [handler |-> hs[x.cmd],
                                                 input |-> x.input])]]
    /\ UNCHANGED << partVars, Commands, StartHealthCheckServer, startVars, pollPc, takeActionCalls,
                    takeInFlight, pollResults, sleeps, sends, logs, exited >>

\* the handler returns outputEvent: completeAction(a, outputEvent)
HandlerReturns(i) ==
    /\ ~exited
    /\ UnitRuns(i)
    /\ execs[i].pc = "Executing"
    /\ \E e \in ReturnEvents(execs[i].invoked[1].handler) :
         execs' = [execs EXCEPT ![i] =
             CallCompleteAction([@ EXCEPT !.via = "Returned",
                                          !.returned = << e >>], e)]
    /\ UNCHANGED << partVars, Commands, StartHealthCheckServer, startVars, pollVars, sends, logs, exited >>

\* the handler panics with v: the deferred handlePanic recovers
HandlerPanics(i) ==
    /\ ~exited
    /\ UnitRuns(i)
    /\ execs[i].pc = "Executing"
    /\ \E v \in PanicValues(execs[i].invoked[1].handler) :
         \E r \in Recovered(v) :
           execs' = [execs EXCEPT ![i] =
               handlePanic([@ EXCEPT !.via = "Panicked",
                                     !.panicked = << v >>], r)]
    /\ UNCHANGED << partVars, Commands, StartHealthCheckServer, startVars, pollVars, sends, logs, exited >>

\* CompleteAction returns: completeAction logs an error, and the no-handler
\* and the panic path log theirs once the action is completed
CompleteActionReturns(i) ==
    /\ ~exited
    /\ UnitRuns(i)
    /\ execs[i].pc = "Completing"
    /\ \E resp \in CompleteActionResponses :
         LET err == CompleteAction(resp) IN
         /\ execs' = [execs EXCEPT ![i] = completeActionEnd(@, err)]
         /\ logs' = logs
              \cup (IF err = "nil" THEN {}
                    ELSE {Log("error", "could not complete action")})
              \cup (CASE execs[i].via = "NoHandler" ->
                           {Log("error", "no handler could be found for command")}
                      [] execs[i].via = "Panicked" ->
                           {Log("error", "command handler raised a panic")}
                      [] OTHER -> {})
    /\ UNCHANGED << partVars, Commands, StartHealthCheckServer, startVars, pollVars, sends, exited >>

(***************************************************************************)
(* pack.go: SendEvent                                                      *)
(***************************************************************************)
\* the event of the n-th call of SendEvent
SentEvent(n) ==
    IF n % 2 = 1 THEN Event("BuildSuccess", GoNil)
    ELSE Event("Alert", GoString("disk full"))

\* client.Event{Name: event.EventDef.Name, Payload: event.Payload}, the
\* argument of SendEvent's call of PostEvent
SendEventArg(event) == [Name |-> event.EventDef.Name, Payload |-> event.Payload]

\* mutant: SendEvent calls PostEvent again when it returned an error
PostEventCalls_retryOnError(arg, err) ==
    IF err # "nil" THEN << arg, arg >> ELSE << arg >>

\* the calls of PostEvent one call of SendEvent makes, the last of which
\* returned err
PostEventCalls(arg, err) == << arg >>

\* what SendEvent returns when PostEvent returned err
SendEventReturn(err) == err

\* SendEvent(event), called by the pack's owner at any time
SendEvent ==
    /\ ~exited
    /\ CallsMade < MaxCalls
    /\ \E resp \in PostEventResponses :
         LET event == SentEvent(Len(sends) + 1)
             arg == SendEventArg(event)
             r == PostEvent(resp, urls, arg)
         IN
         sends' = Append(sends,
                    [ event |-> event,
                      calls |-> PostEventCalls(arg, r.err),
                      posted |-> r.posted,
                      postErr |-> r.err,
                      ret |-> SendEventReturn(r.err),
                      panicked |-> PanickedUnits ])
    /\ UNCHANGED << partVars, Commands, StartHealthCheckServer, startVars, pollVars, execs, logs, exited >>

(***************************************************************************)
(* The program                                                             *)
(***************************************************************************)
Next ==
    \/ \E s \in StartCalls : Start(s)
    \/ \E s \in StartCalls : RetryStart(s)
    \/ \E s \in StartCalls : IssueTakeAction(s)
    \/ \E s \in StartCalls : TakeActionReturns(s)
    \/ \E s \in StartCalls : PollWake(s)
    \/ \E i \in 1..MaxActions : handleAction(i)
    \/ \E i \in 1..MaxActions : HandlerReturns(i)
    \/ \E i \in 1..MaxActions : HandlerPanics(i)
    \/ \E i \in 1..MaxActions : CompleteActionReturns(i)
    \/ SendEvent

Spec == Init /\ [][Next]_vars

\* The poll loop's goroutine is scheduled, a TakeAction call returns (the
\* http client has a timeout) and a sleep ends.  Nothing is assumed of the
\* handlers, the completion calls, Start's retries or SendEvent.
FairSpec ==
    /\ Spec
    /\ \A s \in StartCalls :
         WF_vars(IssueTakeAction(s) \/ TakeActionReturns(s) \/ PollWake(s))

\* The goroutine of every execution unit is scheduled, a handler that can
\* return or panic does, and a CompleteAction call returns (the http client
\* has a timeout).  Nothing is assumed of the poll loop, Start or SendEvent.
\* the packs whose execution units are followed to their end: a handler
\* that returns or panics with a value, a nil handler, and a handler that
\* hangs next to one that returns
UnitCommandLists ==
    { << Command("RunBuild", "h2") >>,
      << Command("RunBuild", NilHandler) >>,
      << Command("RunBuild", "h5"), Command("Deploy", "h4") >> }

UnitInit == Init /\ Commands \in UnitCommandLists

\* the pack's owner starts the pack and sends no event of its own
UnitNext ==
    \/ \E s \in StartCalls : Start(s)
    \/ \E s \in StartCalls : RetryStart(s)
    \/ \E s \in StartCalls : IssueTakeAction(s)
    \/ \E s \in StartCalls : TakeActionReturns(s)
    \/ \E s \in StartCalls : PollWake(s)
    \/ \E i \in 1..MaxActions : handleAction(i)
    \/ \E i \in 1..MaxActions : HandlerReturns(i)
    \/ \E i \in 1..MaxActions : HandlerPanics(i)
    \/ \E i \in 1..MaxActions : CompleteActionReturns(i)

UnitFairSpec ==
    /\ UnitInit /\ [][UnitNext]_vars
    /\ \A i \in 1..MaxActions :
         WF_vars(handleAction(i) \/ HandlerReturns(i) \/ HandlerPanics(i)
                   \/ CompleteActionReturns(i))

\* A program that calls Start twice on the same pack, with the health
\* check server switched on or off.
TwoStartCalls == {"main", "second"}

\* a pack without commands and a pack with one command
StartCommandLists == { << >>, << Command("RunBuild", "h4") >> }

TwoStartsInit ==
    /\ RegisterIdle
    /\ ClientIdle
    /\ HealthIdle
    /\ Commands \in StartCommandLists
    /\ StartHealthCheckServer \in BOOLEAN
    /\ startSteps = << >>
    /\ urls = [events |-> FALSE, takeAction |-> FALSE]
    /\ startPc = [s \in TwoStartCalls |-> "register"]
    /\ createPackCalls = 0
    /\ regFailures = 0
    /\ pollPc = [s \in TwoStartCalls |-> "none"]
    /\ handlers = [s \in TwoStartCalls |-> EmptyMap]
    /\ takeActionCalls = 0
    /\ takeInFlight = 0
    /\ pollResults = << >>
    /\ execs = << >>
    /\ sleeps = << >>
    /\ sends = << >>
    /\ logs = {}
    /\ exited = FALSE

TwoStartsNext ==
    \/ \E s \in TwoStartCalls : Start(s)
    \/ \E s \in TwoStartCalls : RetryStart(s)
    \/ \E s \in TwoStartCalls : IssueTakeAction(s)
    \/ \E s \in TwoStartCalls : TakeActionReturns(s)
    \/ \E s \in TwoStartCalls : PollWake(s)
    \/ \E i \in 1..MaxActions : handleAction(i)
    \/ \E i \in 1..MaxActions : HandlerReturns(i)
    \/ \E i \in 1..MaxActions : CompleteActionReturns(i)

TwoStartsSpec == TwoStartsInit /\ [][TwoStartsNext]_vars

(***************************************************************************)
(* Properties                                                              *)
(***************************************************************************)
Main == "main"

\* the poll results that carry no error and an action, or no error and none
IsAction(r) == r.err = "nil" /\ r.action # << >>
IsEmpty(r) == r.err = "nil" /\ r.action = << >>
Dispatched(h) == { k \in DOMAIN h : IsAction(h[k]) }

\* the poll loop of s exists, the process runs, and the loop's next step
\* can be taken
PollLoopAlive(s) ==
    /\ pollPc[s] \in {"take", "inflight", "sleep"}
    /\ ~exited
    /\ (pollPc[s] = "take" /\ CallsMade < MaxCalls)
         => ENABLED IssueTakeAction(s)
    /\ pollPc[s] = "inflight" => ENABLED TakeActionReturns(s)
    /\ pollPc[s] = "sleep" => ENABLED PollWake(s)

\* the one CompleteAction call of execution unit x, if made with event e
CompletedOnceWith(x, e) ==
    x.completions = << [action |-> Action(x.cmd, x.input), event |-> e] >>

\* C1: an action whose handler panicked with v is completed with the event
\* FATAL carrying fmt "%v" of v, and the poll loop is still running (unless
\* a not-found poll ended the process).
C1_PanicCompletedWithTextOfValue ==
    \A i \in DOMAIN execs :
      LET x == execs[i] IN
      x.panicked # << >> =>
        /\ CompletedOnceWith(x, [Name |-> fatalEventName,
                                 Payload |-> Sprintf_v(x.panicked[1])])
        /\ ~exited => PollLoopAlive(x.loop)

\* C2: an action whose command is no key of the handlers map is completed
\* with an event named FATAL for that action, no handler is invoked for it,
\* and the poll loop goes on polling.
C2_NoHandlerCompletedWithFatal ==
    \A i \in DOMAIN execs :
      LET x == execs[i] IN
      x.cmd \notin DOMAIN handlers[x.loop] =>
        /\ x.invoked = << >>
        /\ x.pc # "Fetched" =>
             /\ Len(x.completions) = 1
             /\ x.completions[1].action = Action(x.cmd, InputOf(i))
             /\ x.completions[1].event.Name = fatalEventName
        /\ ~exited => PollLoopAlive(x.loop)

C2_Witness ==
    \E i \in DOMAIN execs :
      /\ execs[i].cmd \notin DOMAIN handlers[execs[i].loop]
      /\ execs[i].pc = "Completed"
      /\ takeActionCalls > execs[i].poll

\* C3: when the handler returned event e, it was the handler registered for
\* the action's command, invoked once with the action's input, and
\* CompleteAction was called once, with that action and with e's name and
\* payload.
C3_ReturnedEventCompletesAction ==
    \A i \in DOMAIN execs :
      LET x == execs[i] IN
      x.returned # << >> =>
        /\ x.invoked = << [handler |-> handlers[x.loop][x.cmd],
                           input |-> InputOf(i)] >>
        /\ x.completions =
             << [action |-> Action(x.cmd, InputOf(i)),
                 event |-> [Name |-> x.returned[1].EventDef.Name,
                            Payload |-> x.returned[1].Payload]] >>

C3_Witness ==
    \E i \in DOMAIN execs :
      /\ execs[i].pc = "Completed"
      /\ execs[i].returned = << NewFatalEvent(GoString("build failed")) >>

\* C4: a TakeAction that returned NotFoundError is the last one: the fatal
\* message is logged, the process has ended, no TakeAction call was issued
\* after it and it started no execution unit.
C4_NotFoundHaltsPolling ==
    \A k \in DOMAIN pollResults :
      pollResults[k].err = "NotFoundError" =>
        /\ k = Len(pollResults)
        /\ takeActionCalls = k
        /\ takeInFlight = 0
        /\ exited
        /\ Log("fatal", "Pack not found while polling for actions. Exiting.")
             \in logs
        /\ Len(execs) = Cardinality(Dispatched(pollResults))

C4_Witness ==
    /\ Len(pollResults) = 2
    /\ pollResults[2].err = "NotFoundError"
    /\ Len(execs) = 1
    /\ execs[1].pc = "Executing"

\* C5: after a TakeAction that returned an error other than NotFoundError
\* the error is logged and the loop sleeps and polls again, however many
\* such errors came before; failed polls start no execution unit, and the
\* action of a later successful poll is dispatched.
C5_OtherErrorsRetried ==
    /\ \A k \in DOMAIN pollResults :
         (pollResults[k].err = "error" /\ k = Len(pollResults)) =>
           /\ PollLoopAlive(Main)
           /\ Log("info", "could not take action") \in logs
           /\ takeActionCalls = k => pollPc[Main] \in {"sleep", "take"}
    /\ Len(execs) = Cardinality(Dispatched(pollResults))
    /\ \A i \in DOMAIN execs :
         /\ execs[i].poll \in Dispatched(pollResults)
         /\ pollResults[execs[i].poll].action =
              << Action(execs[i].cmd, execs[i].input) >>

C5_Witness ==
    /\ Len(pollResults) = 3
    /\ pollResults[1].err = "error"
    /\ pollResults[2].err = "error"
    /\ IsAction(pollResults[3])
    /\ execs[1].pc = "Completed"

\* C6: when the first n TakeAction calls returned nothing pending and the
\* next one an action, that action was dispatched when exactly n+1 calls had
\* been issued; and an empty poll leaves the loop polling.
C6_EmptyPollsThenAction ==
    /\ \A n \in 0..MaxCalls :
         ( /\ Len(pollResults) > n
           /\ \A j \in 1..n : IsEmpty(pollResults[j])
           /\ IsAction(pollResults[n + 1]) )
         => /\ Len(execs) >= 1
            /\ execs[1].poll = n + 1
    /\ \A k \in DOMAIN pollResults :
         (IsEmpty(pollResults[k]) /\ k = Len(pollResults)) =>
           PollLoopAlive(Main)

C6_Witness ==
    /\ Len(pollResults) = 3
    /\ IsEmpty(pollResults[1])
    /\ IsEmpty(pollResults[2])
    /\ IsAction(pollResults[3])
    /\ execs[1].poll = 3
    /\ execs[1].pc = "Executing"

\* C7: Start that has seen K CreatePack failures has made K calls and is
\* about to make, or waits to make, the next; once a call succeeded exactly
\* K+1 were made; no TakeAction is called and no poll loop exists before.
C7_RegistrationRetried ==
    /\ startPc[Main] = "returned" => createPackCalls = regFailures + 1
    /\ startPc[Main] # "returned" =>
         /\ createPackCalls = regFailures
         /\ takeActionCalls = 0
         /\ pollPc[Main] = "none"
    /\ (startPc[Main] = "retryWait" /\ ~exited) => ENABLED RetryStart(Main)
    /\ (startPc[Main] = "register" /\ CallsMade < MaxCalls)
         => ENABLED Start(Main)

C7_Witness ==
    /\ regFailures = 2
    /\ createPackCalls = 3
    /\ takeActionCalls = 1

\* C8: a pack without commands has no poll loop, calls TakeAction never and
\* has no execution unit.
C8_NoCommandsNoPolling ==
    Commands = << >> =>
      /\ pollPc[Main] = "none"
      /\ takeActionCalls = 0
      /\ takeInFlight = 0
      /\ execs = << >>

C8_Witness ==
    /\ Commands = << >>
    /\ startPc[Main] = "returned"

C10_ExecutionsNotSerialized ==
    /\ \A i \in DOMAIN execs :
         (execs[i].pc = "Fetched" /\ ~exited) => ENABLED handleAction(i)
    /\ ( /\ \E j \in DOMAIN execs : execs[j].pc = "Executing"
         /\ ~exited
         /\ pollPc[Main] = "take"
         /\ CallsMade < MaxCalls )
       => ENABLED IssueTakeAction(Main)

C10_Witness ==
    /\ Len(execs) = 2
    /\ execs[1].pc = "Executing"
    /\ execs[2].pc = "Executing"
    /\ execs[2].poll = execs[1].poll + 1
    /\ takeInFlight = 0

(***************************************************************************)
(* register.go: the pack definition that is sent, from PackDef             *)
(***************************************************************************)
\* most event definitions of a pack or of a command, and most commands
MaxDefs == 2

\* the event names a pack declares
EventNames == { "BuildSuccess", "BuildFailure" }

\* flyte.EventDef{Name: name}
EventDef(name) == [Name |-> name]

\* the name of the k-th command of a pack
CommandName(k) ==
    CASE k = 1 -> "RunBuild" [] k = 2 -> "Deploy" [] OTHER -> "Rollback"

\* the sequences over S of length n at most
SeqsUpTo(S, n) == UNION { [1..k -> S] : k \in 0..n }

\* the lists of event definitions a pack or a command may declare
EventDefLists == SeqsUpTo({ EventDef(n) : n \in EventNames }, MaxDefs)

\* the command lists of a pack, with their output events
DeclaredCommands ==
    UNION { { [k \in 1..n |-> [Name |-> CommandName(k), OutputEvents |-> o[k]]]
              : o \in [1..n -> EventDefLists] } : n \in 0..MaxDefs }

\* mutant: every declaration of an event gets an entry of its own
EventDefKey_perDeclaration(eventDef, m) ==
    << eventDef.Name, Cardinality(DOMAIN m) >>

\* the key addToEventDefsSet stores an event definition under
EventDefKey(eventDef, m) == eventDef.Name

\* addToEventDefsSet: eventDefsSet[eventDef.Name] = client.EventDef{Name}
addToEventDefsSet(eventDef, m) ==
    MapPut(m, EventDefKey(eventDef, m), [Name |-> eventDef.Name])

\* processEventDefs, and the loop of processCommandEventDefs
RECURSIVE processEventDefs(_, _)
processEventDefs(eventDefs, m) ==
    IF eventDefs = << >> THEN m
    ELSE processEventDefs(Tail(eventDefs), addToEventDefsSet(Head(eventDefs), m))

\* the event names processCommandEventDefs returns
processCommandEventDefs(eventDefs) ==
    [i \in DOMAIN eventDefs |-> eventDefs[i].Name]

\* processCommands: the client commands, and the set with the output events
\* of every command added
RECURSIVE processCommands(_, _, _)
processCommands(commands, c, m) ==
    IF commands = << >> THEN [c |-> c, eventDefsSet |-> m]
    ELSE processCommands(
           Tail(commands),
           Append(c, [Name |-> Head(commands).Name,
                      EventNames |->
                        processCommandEventDefs(Head(commands).OutputEvents)]),
           processEventDefs(Head(commands).OutputEvents, m))

\* toSlice: the values of the map in the order the iteration yields them,
\* which is any order
toSlice(m) ==
    { s \in [1..Cardinality(DOMAIN m) -> { m[k] : k \in DOMAIN m }] :
        \E f \in [1..Cardinality(DOMAIN m) -> DOMAIN m] :
          /\ \A k \in DOMAIN m : \E i \in DOMAIN f : f[i] = k
          /\ \A i \in DOMAIN f : s[i] = m[f[i]] }

\* aggregateAndConvert: the slices toSlice may return, and the commands
aggregateAndConvert(eventDefs, commands) ==
    LET pc == processCommands(commands, << >>, [n \in {} |-> [Name |-> n]])
    IN [ eventDefs |-> toSlice(processEventDefs(eventDefs, pc.eventDefsSet)),
         commands |-> pc.c ]

RegisterInit ==
    /\ PackIdle
    /\ ClientIdle
    /\ HealthIdle
    /\ packDef \in [EventDefs : EventDefLists, Commands : DeclaredCommands]
    /\ sentPack = << >>

\* p.register(): the client.Pack that is given to CreatePack
register ==
    /\ sentPack = << >>
    /\ LET r == aggregateAndConvert(packDef.EventDefs, packDef.Commands) IN
       \E defs \in r.eventDefs :
         sentPack' = << [EventDefs |-> defs, Commands |-> r.commands] >>
    /\ UNCHANGED << packVars, packDef, clientVars, healthVars >>

RegisterNext == register

RegisterSpec == RegisterInit /\ [][RegisterNext]_vars

(***************************************************************************)
(* client.go and http.go: newClient and the requests of the client         *)
(***************************************************************************)
\* most http requests of one behaviour
MaxRequests == 3

\* the values of the FLYTE_JWT environment variable: unset, or a token
JwtValues == { "", "a.jwt.token" }

\* http.Header.Get(name)
HeaderGet(header, name) ==
    IF name \in DOMAIN header THEN header[name] ELSE ""

\* c.post(u, body): the request that is sent
post(c, u) ==
    [method |-> "POST", url |-> u,
     header |-> ("Content-Type" :> "application/json")]

\* c.get(u): the request that is sent
get(c, u) ==
    [method |-> "GET", url |-> u,
     header |-> ("Accept" :> "application/json")]

\* answers to the GET of the api links: no answer, a body that does not
\* decode, or the rels of the links served
ApiLinksResponses ==
    { [decodes |-> FALSE, links |-> {}, transport |-> "error"],
      [decodes |-> FALSE, links |-> {}, transport |-> "ok"],
      [decodes |-> TRUE, links |-> {"info/health"}, transport |-> "ok"],
      [decodes |-> TRUE, links |-> ApiRels, transport |-> "ok"] }

\* c.getStruct(c.baseURL, &links): the error it returns
getStruct(resp) ==
    IF resp.transport = "error" THEN "error getting url"
    ELSE IF ~resp.decodes THEN "could not deserialise response"
    ELSE "nil"

\* mutant: getApiLinks gives up after a failure
ApiLinksOutcome_givesUp(err) == "done"

\* what getApiLinks does with the error of getStruct
ApiLinksOutcome(err) == IF err # "nil" THEN "retry" ELSE "done"

\* the urls CreatePack reads and writes
UrlsOf(c) == [events |-> c.eventsURL, takeAction |-> c.takeActionURL]

\* CreatePack of client c: getPacksURL fails without the packs link and
\* nothing is posted
CreatePackOf(c, resp) ==
    IF "pack/listPacks" \notin c.apiLinks
    THEN [err |-> "error", posted |-> FALSE, client |-> c]
    ELSE LET r == CreatePack(resp, UrlsOf(c)) IN
         [err |-> r.err, posted |-> TRUE,
          client |-> [c EXCEPT !.eventsURL = r.urls.events,
                               !.takeActionURL = r.urls.takeAction]]

\* Link{Href: href, Rel: rel}; a rel is written as the sequence of its
\* parts, so that its end can be compared
Link(href, rel) == [Href |-> href, Rel |-> rel]

ActionResultRel == << "actionResult" >>
\* rels a server may put in the links of an action: the result link with
\* its prefix or bare, a link that only starts like it, and another one
RelFull == << "http://example.com/swagger#/action/", "actionResult" >>
RelBare == << "actionResult" >>
RelHistory == << "actionResult", "/history" >>
RelSelf == << "self" >>

\* strings.HasSuffix(s, suffix)
HasSuffix(s, suffix) ==
    /\ Len(s) >= Len(suffix)
    /\ SubSeq(s, Len(s) - Len(suffix) + 1, Len(s)) = suffix

\* mutant: the last link that matches is taken
RECURSIVE findURLByRel_lastMatch(_, _)
findURLByRel_lastMatch(links, rel) ==
    IF links = << >> THEN [href |-> << >>, err |-> "error"]
    ELSE LET l == links[Len(links)] IN
         IF HasSuffix(l.Rel, rel) THEN [href |-> << l.Href >>, err |-> "nil"]
         ELSE findURLByRel_lastMatch(SubSeq(links, 1, Len(links) - 1), rel)

\* findURLByRel: the Href of the first link whose Rel ends with rel, or an
\* error
RECURSIVE findURLByRel(_, _)
findURLByRel(links, rel) ==
    IF links = << >> THEN [href |-> << >>, err |-> "error"]
    ELSE IF HasSuffix(Head(links).Rel, rel)
    THEN [href |-> << Head(links).Href >>, err |-> "nil"]
    ELSE findURLByRel(Tail(links), rel)

\* the link lists of the actions that are completed
ActionLinks ==
    { << >>,
      << Link("href1", RelSelf) >>,
      << Link("href1", RelHistory) >>,
      << Link("href1", RelFull) >>,
      << Link("href1", RelSelf), Link("href2", RelFull) >>,
      << Link("href1", RelFull), Link("href2", RelBare) >>,
      << Link("href1", RelBare), Link("href2", RelFull) >>,
      << Link("href1", RelHistory), Link("href2", RelSelf) >> }

\* CompleteAction for an action with these links: without a result link
\* nothing is posted
CompleteActionOf(links, resp) ==
    LET found == findURLByRel(links, ActionResultRel) IN
    IF found.err # "nil"
    THEN [err |-> "error", posted |-> FALSE, url |-> ""]
    ELSE [err |-> CompleteAction(resp), posted |-> TRUE,
          url |-> found.href[1]]

ClientInit ==
    /\ PackIdle
    /\ RegisterIdle
    /\ HealthIdle
    /\ client \in [eventsURL : {FALSE}, takeActionURL : {FALSE},
                    apiLinks : {{}}, jwt : JwtValues]
    /\ clientPc = "getApiLinks"
    /\ requests = << >>
    /\ apiLinksErrors = 0
    /\ lastCall = NoCall

\* one pass of getApiLinks: the GET, and on error the log before the sleep
getApiLinks ==
    /\ clientPc = "getApiLinks"
    /\ Len(requests) < MaxRequests
    /\ \E resp \in ApiLinksResponses :
         LET err == getStruct(resp) IN
         /\ requests' = Append(requests,
                                [request |-> get(client, "baseURL"),
                                 answer |-> resp])
         /\ apiLinksErrors' = IF err # "nil" THEN apiLinksErrors + 1
                               ELSE apiLinksErrors
         /\ lastCall' = [op |-> "getApiLinks", resp |-> resp, err |-> err]
         /\ IF ApiLinksOutcome(err) = "retry"
            THEN /\ clientPc' = "retryWait"
                 /\ client' = client
            ELSE /\ clientPc' = "ready"
                 /\ client' = [client EXCEPT !.apiLinks = resp.links]
    /\ UNCHANGED << packVars, registerVars, healthVars >>

\* time.Sleep(flyteApiRetryWait) is over: getApiLinks calls itself
getApiLinksRetry ==
    /\ clientPc = "retryWait"
    /\ clientPc' = "getApiLinks"
    /\ UNCHANGED << packVars, registerVars, healthVars, client, requests,
                    apiLinksErrors, lastCall >>

\* the requests after a call that posted, or did not post, to url
Sent(posted, url, answer) ==
    IF posted
    THEN Append(requests, [request |-> post(client, url), answer |-> answer])
    ELSE requests

\* a call of CreatePack on the client newClient returned
DoCreatePack ==
    /\ clientPc = "ready"
    /\ Len(requests) < MaxRequests
    /\ \E resp \in CreatePackResponses :
         LET r == CreatePackOf(client, resp) IN
         /\ client' = r.client
         /\ requests' = Sent(r.posted, "packsURL", resp)
         /\ lastCall' = [op |-> "CreatePack", resp |-> resp,
                         before |-> client, err |-> r.err]
    /\ UNCHANGED << packVars, registerVars, healthVars, clientPc,
                    apiLinksErrors >>

\* a call of TakeAction
DoTakeAction ==
    /\ clientPc = "ready"
    /\ Len(requests) < MaxRequests
    /\ \E resp \in TakeActionResponses :
         LET a == Action("RunBuild", InputOf(1))
             r == TakeAction(resp, UrlsOf(client), a)
         IN
         /\ requests' = Sent(client.takeActionURL, "takeActionURL", resp)
         /\ lastCall' = [op |-> "TakeAction", resp |-> resp,
                         before |-> client, sent |-> a, result |-> r,
                         posts |-> IF client.takeActionURL THEN 1 ELSE 0]
    /\ UNCHANGED << packVars, registerVars, healthVars, client, clientPc,
                    apiLinksErrors >>

\* a call of PostEvent
DoPostEvent ==
    /\ clientPc = "ready"
    /\ Len(requests) < MaxRequests
    /\ \E resp \in PostEventResponses :
         LET r == PostEvent(resp, UrlsOf(client), SendEventArg(SentEvent(1)))
         IN
         /\ requests' = Sent(r.posted # << >>, "eventsURL", resp)
         /\ lastCall' = [op |-> "PostEvent", resp |-> resp,
                         before |-> client, err |-> r.err,
                         posts |-> Len(r.posted)]
    /\ UNCHANGED << packVars, registerVars, healthVars, client, clientPc,
                    apiLinksErrors >>

\* a call of CompleteAction
DoCompleteAction ==
    /\ clientPc = "ready"
    /\ Len(requests) < MaxRequests
    /\ \E links \in ActionLinks, resp \in CompleteActionResponses :
         LET r == CompleteActionOf(links, resp) IN
         /\ requests' = Sent(r.posted, r.url, resp)
         /\ lastCall' = [op |-> "CompleteAction", resp |-> resp,
                         before |-> client, links |-> links, err |-> r.err,
                         posts |-> IF r.posted THEN 1 ELSE 0]
    /\ UNCHANGED << packVars, registerVars, healthVars, client, clientPc,
                    apiLinksErrors >>

ClientNext ==
    \/ getApiLinks
    \/ getApiLinksRetry
    \/ DoCreatePack
    \/ DoTakeAction
    \/ DoPostEvent
    \/ DoCompleteAction

ClientSpec == ClientInit /\ [][ClientNext]_vars

\* ---------------------------------------------------------------------
\* healthcheck: the handler of the health check endpoint
\* ---------------------------------------------------------------------

\* health checks given to Start, at most
MaxChecks == 2

\* the names the health checks report under
CheckNames == { "Some Check", "Other Check" }

\* Health: Status is an interface{} value; "unmarshallable" stands for a
\* value json.Marshal rejects (a channel, a func)
Health == [Healthy : BOOLEAN, Status : {"Ok", "Down", "unmarshallable"}]

\* healthCheck(): (name, health) of one run of a health check
HealthCheck == [name : CheckNames, health : Health]

\* healthCheckResults: the map the handler fills, check by check, in the
\* order of the slice; an entry of the same name is overwritten
RECURSIVE healthCheckResults(_, _)
healthCheckResults(reports, m) ==
    IF reports = << >> THEN m
    ELSE LET r == Head(reports) IN
         healthCheckResults(Tail(reports),
            [n \in DOMAIN m \cup {r.name} |->
                IF n = r.name THEN r.health ELSE m[n]])

\* json.Marshal(healthCheckResults) returns an error
MarshalFails(results) ==
    \E n \in DOMAIN results : results[n].Status = "unmarshallable"

\* the response of the handler to one request: the status code and the
\* body, a sequence of length 0 when nothing is written
handlerResponse(reports) ==
    IF Len(reports) = 0 THEN [status |-> 200, body |-> << >>]
    ELSE LET results == healthCheckResults(reports, << >>) IN
         IF MarshalFails(results) THEN [status |-> 500, body |-> << >>]
         ELSE IF \E n \in DOMAIN results : ~results[n].Healthy
         THEN [status |-> 500, body |-> << results >>]
         ELSE [status |-> 200, body |-> << results >>]

\* Start(healthChecks): the server handles requests with the checks given
HealthInit ==
    /\ PackIdle
    /\ RegisterIdle
    /\ ClientIdle
    /\ healthChecks \in SeqsUpTo(CheckNames, MaxChecks)
    /\ healthResponse = << >>

\* one request: every check is run, each reports under its name
handler ==
    \E reports \in [DOMAIN healthChecks -> Health] :
      LET ran == [i \in DOMAIN healthChecks |->
                    [name |-> healthChecks[i], health |-> reports[i]]]
      IN
      /\ healthResponse' = << [reports |-> ran,
                               response |-> handlerResponse(ran)] >>
      /\ UNCHANGED << packVars, registerVars, clientVars, healthChecks >>

HealthNext == handler

HealthSpec == HealthInit /\ [][HealthNext]_vars

\* the handler can return or panic
Terminates(h) == ReturnEvents(h) \cup PanicValues(h) # {}

\* the next step of execution unit j can be taken: its handler is looked
\* up, a handler that terminates ends, a completion call returns
UnitCanProceed(j) ==
    /\ execs[j].pc = "Fetched" => ENABLED handleAction(j)
    /\ (execs[j].pc = "Executing" /\ Terminates(execs[j].invoked[1].handler))
         => ENABLED (HandlerReturns(j) \/ HandlerPanics(j))
    /\ execs[j].pc = "Completing" => ENABLED CompleteActionReturns(j)

\* C11: a panic in one action's handler, a nil handler included, leaves the
\* rest alone: every other execution unit can still take its next step up
\* to its own completion call, SendEvent can still be called, and a
\* SendEvent called after the panic passed the event's name and payload to
\* PostEvent and returned what PostEvent returned.
C11_PanicIsContained ==
    /\ \A k \in DOMAIN sends :
         sends[k].panicked # {} =>
           /\ sends[k].calls = << [Name |-> sends[k].event.EventDef.Name,
                                   Payload |-> sends[k].event.Payload] >>
           /\ sends[k].ret = sends[k].postErr
    /\ (PanickedUnits # {} /\ ~exited) =>
         /\ CallsMade < MaxCalls => ENABLED SendEvent
         /\ \A j \in DOMAIN execs \ PanickedUnits : UnitCanProceed(j)

\* one handler panicked, an event sent afterwards was accepted, and an
\* action fetched before that panic was completed by its own unit
C11_Witness ==
    \E k \in DOMAIN sends, i, j \in DOMAIN execs :
      /\ i \in sends[k].panicked
      /\ sends[k].posted # << >>
      /\ sends[k].ret = "nil"
      /\ j < i
      /\ execs[j].panicked = << >>
      /\ execs[j].pc = "Completed"

\* the execution units whose handler was invoked and never returns
HungUnits ==
    { i \in DOMAIN execs : /\ execs[i].pc = "Executing"
                           /\ ~Terminates(execs[i].invoked[1].handler) }

\* C12: a handler that never returns blocks its own execution unit only:
\* while a handler is executing, the poll loop can take its next step
\* (TakeAction is issued, returns, the sleep ends) and every other unit can
\* take its own next step up to its completion call; the unit of a hung
\* handler makes no completion call.
C12_HangBlocksOnlyItsUnit ==
    /\ \A i \in DOMAIN execs :
         (execs[i].pc = "Executing" /\ ~exited) =>
           /\ PollLoopAlive(Main)
           /\ \A j \in DOMAIN execs \ {i} : UnitCanProceed(j)
    /\ \A i \in HungUnits : execs[i].completions = << >>

\* the first action's handler hangs; the second action, fetched later, was
\* completed, and TakeAction was called again after it was fetched
C12_Witness ==
    /\ Len(execs) = 2
    /\ 1 \in HungUnits
    /\ execs[2].pc = "Completed"
    /\ Len(execs[2].completions) = 1
    /\ takeActionCalls > execs[2].poll

UnitEnded(i) ==
    ~ENABLED (handleAction(i) \/ HandlerReturns(i) \/ HandlerPanics(i)
                \/ CompleteActionReturns(i))

\* C14: an error returned by CompleteAction is only logged: no unit calls
\* CompleteAction a second time; a unit whose call failed has logged the
\* error and has ended, while the poll loop and every other execution unit
\* can take their next step.
C14_CompletionErrorOnlyLogged ==
    \A i \in DOMAIN execs :
      /\ Len(execs[i].completions) <= 1
      /\ execs[i].pc = "CompletionFailed" =>
           /\ Len(execs[i].completions) = 1
           /\ Log("error", "could not complete action") \in logs
           /\ UnitEnded(i)
           /\ ~exited =>
                /\ PollLoopAlive(Main)
                /\ \A j \in DOMAIN execs \ {i} : UnitCanProceed(j)

\* the completion of the first action failed; a TakeAction call made after
\* that action was fetched returned a second action, which was completed
C14_Witness ==
    /\ Len(execs) = 2
    /\ execs[1].pc = "CompletionFailed"
    /\ Len(execs[1].completions) = 1
    /\ execs[2].pc = "Completed"
    /\ takeActionCalls > execs[2].poll

\* C15: every call of SendEvent made exactly one call of PostEvent, with
\* the event's EventDef.Name and Payload, and returned the very value that
\* PostEvent returned, an error included.
C15_SendEventForwardsOnce ==
    \A k \in DOMAIN sends :
      /\ Len(sends[k].calls) = 1
      /\ \A n \in DOMAIN sends[k].calls :
           /\ sends[k].calls[n].Name = sends[k].event.EventDef.Name
           /\ sends[k].calls[n].Payload = sends[k].event.Payload
      /\ sends[k].ret = sends[k].postErr

\* two different events were sent with SendEvent: PostEvent accepted one
\* and SendEvent returned nil, the server refused the other and SendEvent
\* returned PostEvent's error
C15_Witness ==
    \E k, l \in DOMAIN sends :
      /\ sends[k].event # sends[l].event
      /\ sends[k].posted = << SendEventArg(sends[k].event) >>
      /\ sends[k].ret = "nil"
      /\ sends[l].posted = << SendEventArg(sends[l].event) >>
      /\ sends[l].ret = "event not accepted"

\* the state of the per-action state machine a unit is in, and the states
\* it went through: an invoked handler is HandlerFound then Executing, `via`
\* is NoHandler, Returned or Panicked, and the event of the completion call
\* tells Completing(Event) from Completing(Fatal)
OnMachinePath(x) ==
    CASE x.pc = "Fetched" ->
           x.via = "" /\ x.invoked = << >> /\ x.completions = << >>
      [] x.pc = "Executing" ->
           x.via = "" /\ Len(x.invoked) = 1 /\ x.completions = << >>
      [] x.pc \in {"Completing", "Completed", "CompletionFailed"} ->
           /\ Len(x.completions) = 1
           /\ CASE x.via = "NoHandler" ->
                     /\ x.invoked = << >>
                     /\ x.completions[1].event.Name = fatalEventName
                [] x.via = "Returned" ->
                     /\ Len(x.invoked) = 1
                     /\ x.completions[1].event =
                          [Name |-> x.returned[1].EventDef.Name,
                           Payload |-> x.returned[1].Payload]
                [] x.via = "Panicked" ->
                     /\ x.completions[1].event.Name = fatalEventName
                [] OTHER -> FALSE
      [] OTHER -> FALSE

\* C16: every action follows the per-action state machine only: Fetched,
\* then NoHandler and Completing(Fatal), or HandlerFound, Executing and
\* then Returned and Completing(Event) or Panicked and Completing(Fatal);
\* a unit that takes no further step is Completed or CompletionFailed
\* unless its handler is still executing, and a unit in one of these two
\* states takes no further step.
C16_OnlyStateMachineTransitions ==
    \A i \in DOMAIN execs :
      /\ OnMachinePath(execs[i])
      /\ execs[i].pc \in {"Completed", "CompletionFailed"} => UnitEnded(i)
      /\ (UnitEnded(i) /\ ~exited) =>
           execs[i].pc \in {"Executing", "Completed", "CompletionFailed"}

\* C17: the poll loop never stops on its own: whenever a TakeAction call
\* has returned anything but NotFoundError and no call is in flight, a
\* further TakeAction call is eventually issued (as long as the model's
\* budget of calls allows one more), whatever the handlers and the
\* completion calls do.
C17_PollLoopNeverStops ==
    (pollResults # << >> /\ takeInFlight = 0 /\ ~exited)
      ~> (takeInFlight > 0 \/ CallsMade >= MaxCalls)

\* a handler panicked, the completion of another action failed, and
\* TakeAction has been called again after both actions were fetched
C17_Witness ==
    /\ \E i, j \in DOMAIN execs :
         /\ execs[i].panicked # << >>
         /\ execs[j].pc = "CompletionFailed"
         /\ execs[j].via = "Returned"
         /\ takeActionCalls > execs[i].poll
         /\ takeActionCalls > execs[j].poll
    /\ ~exited

\* the TakeAction calls that returned no action or an error other than
\* NotFoundError
Unsuccessful(h) ==
    { k \in DOMAIN h : ~IsAction(h[k]) /\ h[k].err # "NotFoundError" }

\* C18: the poll loop has slept once for every TakeAction call that
\* returned no action or an error, and never for one that returned an
\* action; every sleep lasted the polling interval; while the loop sleeps no
\* TakeAction call is in flight and the last call was unsuccessful; after
\* a call that returned an action the loop is at its next TakeAction call
\* without sleeping.
C18_OneFixedSleepPerUnsuccessfulPoll ==
    /\ Len(sleeps) = Cardinality(Unsuccessful(pollResults))
    /\ \A k \in DOMAIN sleeps : sleeps[k] = pollingFrequency
    /\ pollPc[Main] = "sleep" =>
         /\ takeInFlight = 0
         /\ takeActionCalls = Len(pollResults)
         /\ Len(pollResults) \in Unsuccessful(pollResults)
    /\ ( /\ pollResults # << >>
         /\ takeActionCalls = Len(pollResults)
         /\ ~exited )
       => IF IsAction(pollResults[Len(pollResults)])
          THEN pollPc[Main] = "take"
          ELSE pollPc[Main] \in {"sleep", "take"} /\ sleeps # << >>

\* an empty poll, a failed poll and a poll that returned an action: two
\* sleeps of the polling interval, and none after the action
C18_Witness ==
    /\ Len(pollResults) = 3
    /\ IsEmpty(pollResults[1])
    /\ pollResults[2].err = "error"
    /\ IsAction(pollResults[3])
    /\ sleeps = << pollingFrequency, pollingFrequency >>
    /\ pollPc[Main] = "take"

\* unit i can make its CompleteAction call now, before unit j makes its own
CanCompleteBefore(i, j) ==
    ENABLED ( /\ HandlerReturns(i)
              /\ Len(execs'[i].completions) = 1
              /\ execs'[j].completions = << >> )

\* C19: completion order is not tied to fetch order: of two actions whose
\* handlers are executing and can return, fetched in either order, each
\* can be the first to have CompleteAction called for it, and no unit
\* waits for the completion call of another one before its next step.
C19_CompletionOrderFree ==
    \A i, j \in DOMAIN execs :
      (i # j /\ ~exited /\ execs[j].completions = << >>) =>
        /\ UnitCanProceed(i)
        /\ ( /\ execs[i].pc = "Executing"
             /\ ReturnEvents(execs[i].invoked[1].handler) # {} )
           => CanCompleteBefore(i, j)

\* B, fetched after A, has been completed while A's handler is still
\* executing and A's CompleteAction call is still to come
C19_Witness ==
    /\ Len(execs) = 2
    /\ execs[1].poll < execs[2].poll
    /\ execs[2].pc = "Completed"
    /\ execs[1].pc = "Executing"
    /\ execs[1].completions = << >>
    /\ ENABLED HandlerReturns(1)

\* the execution units whose handler is executing
Executing == { i \in DOMAIN execs : execs[i].pc = "Executing" }

\* C20: there is no admission control: however many executions are in
\* flight, a TakeAction call in flight can return an action that is
\* dispatched to a new execution unit at once (as long as the server of the
\* model has one to hand out), and a dispatched unit can go on to its
\* handler at once.
C20_NoAdmissionControl ==
    ~exited =>
      /\ (pollPc[Main] = "inflight" /\ Len(execs) < MaxActions) =>
           ENABLED ( /\ TakeActionReturns(Main)
                     /\ Len(execs') = Len(execs) + 1 )
      /\ \A i \in DOMAIN execs :
           execs[i].pc = "Fetched" =>
             ENABLED (handleAction(i) /\ execs'[i].pc # "Fetched")

\* as many handlers are executing at once as the server hands out actions
C20_Witness ==
    /\ Cardinality(Executing) = MaxActions
    /\ MaxActions > 1

\* C21: the command name to handler map is built once, when the poll loop
\* starts, from the pack's commands and is the same map ever after: no
\* poll, handler invocation, panic recovery or completion changes it, and
\* every execution unit resolved its command name as that map does.
C21_HandlersMapNeverModified ==
    /\ \A s \in StartCalls :
         handlers[s] = IF pollPc[s] = "none" THEN EmptyMap
                       ELSE createHandlersMap(Commands)
    /\ \A i \in DOMAIN execs :
         LET x == execs[i]
             hs == createHandlersMap(Commands)
         IN
         /\ \A n \in DOMAIN x.invoked :
              x.cmd \in DOMAIN hs /\ x.invoked[n].handler = hs[x.cmd]
         /\ x.via = "NoHandler" => x.cmd \notin DOMAIN hs

\* two actions of the same command resolved to the same handler, after a
\* panic of the first one and a completion
C21_Witness ==
    /\ Len(execs) = 2
    /\ execs[1].cmd = execs[2].cmd
    /\ execs[1].panicked # << >>
    /\ execs[1].pc \in {"Completed", "CompletionFailed"}
    /\ Len(execs[2].invoked) = 1
    /\ execs[2].invoked[1].handler = execs[1].invoked[1].handler
    /\ execs[2].poll > execs[1].poll

\* C22: an action whose command is registered with a nil handler is
\* completed with an event named FATAL and a payload that is not nil, no
\* handler is invoked for it, and the pack keeps running: the poll loop can
\* take its next step.
C22_NilHandlerCompletedWithFatal ==
    \A i \in DOMAIN execs :
      LET x == execs[i]
          hs == createHandlersMap(Commands)
      IN
      (x.cmd \in DOMAIN hs /\ hs[x.cmd] = NilHandler /\ x.pc # "Fetched") =>
        /\ x.invoked = << >>
        /\ x.pc \in {"Completing", "Completed", "CompletionFailed"}
        /\ Len(x.completions) = 1
        /\ x.completions[1].action = Action(x.cmd, x.input)
        /\ x.completions[1].event.Name = "FATAL"
        /\ x.completions[1].event.Payload # GoNil
        /\ ~exited => PollLoopAlive(Main)

\* the action of a nil handler was completed and TakeAction was called
\* again afterwards
C22_Witness ==
    \E i \in DOMAIN execs :
      /\ execs[i].cmd \in DOMAIN createHandlersMap(Commands)
      /\ createHandlersMap(Commands)[execs[i].cmd] = NilHandler
      /\ execs[i].pc = "Completed"
      /\ execs[i].completions[1].event.Name = "FATAL"
      /\ takeActionCalls > execs[i].poll
      /\ ~exited

\* the pack has been registered: a CreatePack call returned nil
Registered == createPackCalls > regFailures

DeclaredEventNames(def) ==
    { def.EventDefs[k].Name : k \in DOMAIN def.EventDefs }
      \cup UNION { { def.Commands[c].OutputEvents[k].Name :
                       k \in DOMAIN def.Commands[c].OutputEvents } :
                   c \in DOMAIN def.Commands }

\* C25: the pack definition sent at registration lists every event name
\* declared at pack level or as a command's output event, each exactly
\* once, and lists the commands one-to-one in declaration order, each with
\* the names of its output events.
C25_PackDefinitionAggregated ==
    \A n \in DOMAIN sentPack :
      LET sent == sentPack[n] IN
      /\ { sent.EventDefs[k].Name : k \in DOMAIN sent.EventDefs }
           = DeclaredEventNames(packDef)
      /\ \A k, l \in DOMAIN sent.EventDefs :
           sent.EventDefs[k].Name = sent.EventDefs[l].Name => k = l
      /\ Len(sent.Commands) = Len(packDef.Commands)
      /\ \A c \in DOMAIN packDef.Commands :
           /\ sent.Commands[c].Name = packDef.Commands[c].Name
           /\ Len(sent.Commands[c].EventNames)
                = Len(packDef.Commands[c].OutputEvents)
           /\ \A k \in DOMAIN packDef.Commands[c].OutputEvents :
                sent.Commands[c].EventNames[k]
                  = packDef.Commands[c].OutputEvents[k].Name

\* an event declared at pack level and by both commands, and another one
\* declared by one command only: two event definitions and two commands
\* are sent
C25_Witness ==
    /\ Len(sentPack) = 1
    /\ Len(packDef.Commands) = 2
    /\ packDef.EventDefs = << EventDef("BuildSuccess") >>
    /\ packDef.Commands[1].OutputEvents
         = << EventDef("BuildSuccess"), EventDef("BuildFailure") >>
    /\ packDef.Commands[2].OutputEvents = << EventDef("BuildSuccess") >>
    /\ Len(sentPack[1].EventDefs) = 2
    /\ sentPack[1].Commands[2].EventNames = << "BuildSuccess" >>

\* C26: TakeAction classifies the answer of the server into one outcome:
\* status 200 yields the decoded action and no error (an error when the
\* body does not decode), 204 no action and no error, 404 no action and a
\* NotFoundError, any other status or a transport failure no action and
\* an ordinary error.
C26_TakeActionClassifiesResponse ==
    (lastCall.op = "TakeAction" /\ lastCall.before.takeActionURL) =>
      LET r == lastCall.result IN
      CASE lastCall.resp = "200" ->
             r.action = << lastCall.sent >> /\ r.err = "nil"
        [] lastCall.resp = "200undecodable" -> r.err = "error"
        [] lastCall.resp = "204" -> r.action = << >> /\ r.err = "nil"
        [] lastCall.resp = "404" ->
             r.action = << >> /\ r.err = "NotFoundError"
        [] OTHER -> r.action = << >> /\ r.err = "error"

\* TakeAction of a registered client was answered with 404 and returned a
\* NotFoundError
C26_Witness ==
    /\ lastCall.op = "TakeAction"
    /\ lastCall.before.takeActionURL
    /\ lastCall.resp = "404"
    /\ lastCall.result.err = "NotFoundError"
    /\ Len(requests) = 3

\* C27: CreatePack returns nil exactly when the packs link is known, the
\* POST was answered with 201, the answer decoded and its links hold both
\* an event link and a takeAction link; the client's events url and
\* takeAction url are then both set, and the pack was posted.
C27_CreatePackOutcome ==
    lastCall.op = "CreatePack" =>
      LET ok == /\ "pack/listPacks" \in lastCall.before.apiLinks
                /\ lastCall.resp.status = "201"
                /\ lastCall.resp.decodes
                /\ {"event", "takeAction"} \subseteq lastCall.resp.links
      IN
      /\ lastCall.err = "nil" <=> ok
      /\ ok => /\ client.eventsURL
               /\ client.takeActionURL
               /\ requests # << >>
               /\ requests[Len(requests)].request.method = "POST"
               /\ requests[Len(requests)].request.url = "packsURL"
      /\ "pack/listPacks" \notin lastCall.before.apiLinks =>
           client = lastCall.before

\* a CreatePack call failed for a missing link, the next one returned nil
\* and set both urls
C27_Witness ==
    /\ lastCall.op = "CreatePack"
    /\ lastCall.err = "nil"
    /\ ~lastCall.before.takeActionURL
    /\ lastCall.before.eventsURL
    /\ client.eventsURL
    /\ client.takeActionURL

\* C28: with FLYTE_JWT set to a token every request the client sends, the
\* GET of the api links and the POSTs of CreatePack, PostEvent, TakeAction
\* and CompleteAction, carries the header Authorization: Bearer token;
\* with FLYTE_JWT unset no request carries an Authorization header.
C28_RequestsCarryJwt ==
    \A k \in DOMAIN requests :
      HeaderGet(requests[k].request.header, "Authorization")
        = IF client.jwt = "" THEN "" ELSE "Bearer " \o client.jwt

\* C29: newClient does not return before the api links were fetched: as
\* long as it has not returned every GET failed and was logged; once it
\* has returned, after K failures, K+1 GETs were made, K errors logged, and
\* the client holds the links of the last, successful answer.
C29_NewClientRetriesApiLinks ==
    LET gets == { k \in DOMAIN requests : requests[k].request.method = "GET" }
    IN
    /\ \A k \in gets : k <= Cardinality(gets)
    /\ \A k \in gets : requests[k].request.url = "baseURL"
    /\ clientPc # "ready" =>
         /\ Cardinality(gets) = apiLinksErrors
         /\ \A k \in gets : getStruct(requests[k].answer) # "nil"
         /\ client.apiLinks = {}
         /\ lastCall.op \in {"none", "getApiLinks"}
    /\ clientPc = "ready" =>
         /\ Cardinality(gets) = apiLinksErrors + 1
         /\ \A k \in gets :
              IF k = Cardinality(gets)
              THEN /\ getStruct(requests[k].answer) = "nil"
                   /\ client.apiLinks = requests[k].answer.links
              ELSE getStruct(requests[k].answer) # "nil"

\* two GETs failed, the third one succeeded: newClient has returned a
\* client with the links of the third answer
C29_Witness ==
    /\ clientPc = "ready"
    /\ apiLinksErrors = 2
    /\ Len(requests) = 3
    /\ requests[1].answer.transport = "error"
    /\ ~requests[2].answer.decodes
    /\ client.apiLinks = ApiRels

\* C30: the health check endpoint answers 200 when no health check is
\* registered or every check reports healthy, 500 with the JSON results in
\* the body when at least one check reports unhealthy, and 500 without a
\* body when the results cannot be marshalled.
C30_HealthStatusReflectsChecks ==
    \A k \in DOMAIN healthResponse :
      LET reports == healthResponse[k].reports
          r == healthResponse[k].response
          results == healthCheckResults(reports, << >>)
      IN
      IF Len(reports) = 0 THEN r.status = 200
      ELSE IF MarshalFails(results)
      THEN r.status = 500 /\ r.body = << >>
      ELSE IF \E i \in DOMAIN reports : ~reports[i].health.Healthy
      THEN r.status = 500 /\ r.body # << >>
      ELSE r.status = 200

\* unit i was dispatched for an action that has no handler, a nil handler,
\* or a handler that returns or panics with a value that is not nil
TerminatingUnit(i) ==
    /\ i \in DOMAIN execs
    /\ LET hs == createHandlersMap(Commands)
           c == execs[i].cmd
       IN
       \/ c \notin DOMAIN hs
       \/ hs[c] = NilHandler
       \/ Terminates(hs[c]) /\ GoNil \notin PanicValues(hs[c])

\* unit i has made its CompleteAction call and the call has returned
CompletionDone(i) ==
    /\ i \in DOMAIN execs
    /\ Len(execs[i].completions) = 1
    /\ execs[i].pc \in {"Completed", "CompletionFailed"}

\* C31 as stated: under fair scheduling every fetched action whose handler
\* terminates, or that has no handler, eventually gets its CompleteAction
\* call and reaches Completed or CompletionFailed, whatever the poll loop
\* and the other execution units do.
C31_TerminatingActionCompletes ==
    \A i \in 1..MaxActions : TerminatingUnit(i) ~> CompletionDone(i)

\* C31 amended: under fair scheduling every fetched action whose handler
\* terminates, or that has no handler, eventually reaches Completed or
\* CompletionFailed after its one CompleteAction call, whatever the other
\* execution units do, unless the poll loop ends the process first with
\* logger.Fatal after a NotFoundError.
C31_TerminatingActionCompletesUnlessExit ==
    \A i \in 1..MaxActions :
      TerminatingUnit(i) ~> (CompletionDone(i) \/ exited)

\* the first action's handler hangs and the poll loop sleeps; the second
\* action, which has no handler, has got its completion call and the call
\* failed
C31_Witness ==
    /\ Len(execs) = 2
    /\ 1 \in HungUnits
    /\ TerminatingUnit(2)
    /\ execs[2].via = "NoHandler"
    /\ execs[2].pc = "CompletionFailed"
    /\ pollPc[Main] = "sleep"
    /\ ~exited

\* the steps the call s of Start has run, in order
StepsOf(s) == SelectSeq(startSteps, LAMBDA x : x.call = s)

\* how many times the call s of Start has run op
StepCount(s, op) ==
    Cardinality({ k \in DOMAIN startSteps : /\ startSteps[k].call = s
                                            /\ startSteps[k].op = op })

\* C32: Start runs its steps in order and only after a successful
\* registration: handleCommands comes right after a p.register() that
\* returned nil, healthcheck.Start right after handleCommands and only when
\* StartHealthCheckServer is true; an invocation whose p.register() failed
\* runs neither of them; a call of Start that has returned has run
\* handleCommands, and healthcheck.Start exactly when the toggle is true.
C32_StartStepsInOrder ==
    \A s \in TwoStartCalls :
      LET steps == StepsOf(s) IN
      /\ \A k \in DOMAIN steps :
           /\ steps[k].op = "handleCommands" =>
                k > 1 /\ steps[k - 1] = RegisterStep(s, "nil")
           /\ steps[k].op = "healthcheck.Start" =>
                /\ StartHealthCheckServer = TRUE
                /\ k > 1 /\ steps[k - 1] = HandleCommandsStep(s)
           /\ (steps[k].op = "register" /\ steps[k].err # "nil"
                 /\ k < Len(steps)) => steps[k + 1].op = "register"
      /\ pollPc[s] # "none" => StepCount(s, "handleCommands") > 0
      /\ startPc[s] = "returned" =>
           /\ StepCount(s, "handleCommands") > 0
           /\ StartHealthCheckServer = TRUE
                <=> StepCount(s, "healthcheck.Start") > 0
      /\ startPc[s] # "returned" =>
           \A k \in DOMAIN steps :
             steps[k].op = "register" /\ steps[k].err # "nil"

\* with the toggle on, a call of Start failed to register, then registered,
\* started the dispatcher and then the health check server
C32_Witness ==
    /\ StartHealthCheckServer = TRUE
    /\ Len(StepsOf(Main)) = 4
    /\ StepsOf(Main)[1].err # "nil"
    /\ StepsOf(Main)[2] = RegisterStep(Main, "nil")
    /\ StepsOf(Main)[3] = HandleCommandsStep(Main)
    /\ StepsOf(Main)[4] = HealthCheckStartStep(Main)
    /\ pollPc[Main] # "none"

\* C33: when registration fails K times and then succeeds inside one call
\* of Start, that call runs handleCommands exactly once and
\* healthcheck.Start at most once, and it launches one poll loop: once the
\* innermost invocation has returned the call takes no further step.
C33_RetriesStartOnce ==
    \A s \in TwoStartCalls :
      /\ StepCount(s, "handleCommands") <= 1
      /\ StepCount(s, "healthcheck.Start") <= 1
      /\ startPc[s] = "returned" =>
           /\ StepCount(s, "handleCommands") = 1
           /\ Len(StepsOf(s)) = FailedPasses(startSteps, s) + 2
                + (IF StartHealthCheckServer = TRUE THEN 1 ELSE 0)
           /\ ~ENABLED (Start(s) \/ RetryStart(s))

\* registration failed twice and then succeeded in one call of Start: one
\* poll loop runs and the dispatcher was started once
C33_Witness ==
    /\ FailedPasses(startSteps, Main) = 2
    /\ startPc[Main] = "returned"
    /\ StepCount(Main, "handleCommands") = 1
    /\ pollPc[Main] = "inflight"
    /\ startPc["second"] = "register"

\* C36: Start has no guard against a second call: a further call of Start
\* can register after another one has returned; each call that registered
\* on a pack with a command has launched its own poll loop, which runs on
\* its own, and while the TakeAction call of one loop is in flight the
\* other loop can issue its own, so that two are in flight at once.
C36_EachStartLaunchesItsPollLoop ==
    /\ \A s \in TwoStartCalls :
         /\ (startPc[s] = "returned" /\ LaunchesPollLoop(Commands)) =>
              /\ pollPc[s] # "none"
              /\ handlers[s] = createHandlersMap(Commands)
              /\ ~exited => PollLoopAlive(s)
         /\ (startPc[s] = "register" /\ ~exited /\ CallsMade < MaxCalls) =>
              ENABLED Start(s)
    /\ ~exited =>
         takeInFlight = Cardinality({ s \in TwoStartCalls :
                                        pollPc[s] = "inflight" })
    /\ \A s, u \in TwoStartCalls :
         ( /\ pollPc[s] = "inflight"
           /\ pollPc[u] = "take"
           /\ ~exited
           /\ CallsMade < MaxCalls ) =>
           ENABLED (IssueTakeAction(u) /\ takeInFlight' = 2)

\* both calls of Start have returned and the TakeAction calls of the two
\* poll loops are in flight at the same time
C36_Witness ==
    /\ \A s \in TwoStartCalls : startPc[s] = "returned"
    /\ \A s \in TwoStartCalls : pollPc[s] = "inflight"
    /\ takeInFlight = 2
    /\ ~exited

\* the TakeAction calls that returned an action together with an error
Partial(h) == { k \in DOMAIN h : h[k].action # << >> /\ h[k].err # "nil" }

\* C34: a TakeAction call that returned an action together with an error
\* is a failed poll: no execution unit is started for it, so its action
\* reaches no handler and no CompleteAction call, the error is logged, the
\* loop sleeps once for it and then polls again.
C34_ActionWithErrorDiscarded ==
    /\ Len(execs) = Cardinality(Dispatched(pollResults))
    /\ \A k \in Partial(pollResults) :
         /\ k \notin Dispatched(pollResults)
         /\ k \in Unsuccessful(pollResults)
         /\ \A i \in DOMAIN execs : execs[i].poll # k
         /\ Log("info", "could not take action") \in logs
         /\ Len(sleeps) >= Cardinality({ j \in Unsuccessful(pollResults) :
                                          j <= k })
         /\ ~exited => PollLoopAlive(Main)
         /\ (k = takeActionCalls /\ ~exited) =>
              pollPc[Main] \in {"sleep", "take"}

\* the first TakeAction call returned an action with an error; the loop
\* slept, polled again, and the action of the second call was handled and
\* completed
C34_Witness ==
    /\ Len(pollResults) = 2
    /\ Partial(pollResults) = {1}
    /\ Len(sleeps) = 1
    /\ Len(execs) = 1
    /\ execs[1].poll = 2
    /\ execs[1].pc = "Completed"

\* the execution units whose handler panicked with nil
NilPanicUnits == { i \in DOMAIN execs : execs[i].panicked = << GoNil >> }

C37_FailedCreatePackChangesUrls ==
    lastCall.op = "CreatePack" =>
      LET before == lastCall.before
          resp == lastCall.resp
          decoded == /\ "pack/listPacks" \in before.apiLinks
                     /\ resp.status = "201"
                     /\ resp.decodes
      IN
      /\ ~decoded => lastCall.err # "nil" /\ client = before
      /\ (decoded /\ "event" \in resp.links
            /\ "takeAction" \notin resp.links) =>
           /\ lastCall.err # "nil"
           /\ client.eventsURL
           /\ ~client.takeActionURL
           /\ \A r \in PostEventResponses :
                PostEvent(r, UrlsOf(client), SendEventArg(SentEvent(1))).posted
                  # << >>
      /\ (decoded /\ "event" \notin resp.links) =>
           /\ lastCall.err # "nil"
           /\ ~client.eventsURL
           /\ client.takeActionURL = before.takeActionURL

\* a CreatePack had set both urls; the next one was answered without an
\* event link, returned an error and left the client without events url
C37_Witness ==
    /\ lastCall.op = "CreatePack"
    /\ lastCall.err # "nil"
    /\ lastCall.before.eventsURL
    /\ lastCall.before.takeActionURL
    /\ ~client.eventsURL
    /\ client.takeActionURL

ResultLinks(links) ==
    { k \in DOMAIN links : HasSuffix(links[k].Rel, ActionResultRel) }

LastOfItsName(k) ==
    \A j \in DOMAIN Commands :
      Commands[j].Name = Commands[k].Name => j <= k

\* C40: when the pack declares two commands of the same name, the handlers
\* map has one entry for the name, bound to the handler of the command
\* declared last; an action of that command invokes that handler and never
\* the one declared earlier.
C40_LastDeclaredHandlerWins ==
    /\ \A s \in StartCalls :
         pollPc[s] # "none" =>
           /\ DOMAIN handlers[s] =
                { Commands[k].Name : k \in DOMAIN Commands }
           /\ \A k \in DOMAIN Commands :
                LastOfItsName(k) =>
                  handlers[s][Commands[k].Name] = Commands[k].Handler
    /\ \A i \in DOMAIN execs :
         LET x == execs[i] IN
         /\ Len(x.invoked) <= 1
         /\ \A k \in DOMAIN Commands :
              (Commands[k].Name = x.cmd /\ LastOfItsName(k)) =>
                /\ \A n \in DOMAIN x.invoked :
                     x.invoked[n].handler = Commands[k].Handler
                /\ (x.pc # "Fetched" /\ Commands[k].Handler # NilHandler)
                     => Len(x.invoked) = 1
         /\ x.invoked # << >> =>
              \E k \in DOMAIN Commands : Commands[k].Name = x.cmd

\* the pack declares RunBuild twice with different handlers; two actions
\* of RunBuild both invoked the handler declared last, and one of them was
\* completed with the event that handler returned
C40_Witness ==
    /\ Len(Commands) = 2
    /\ Commands[1].Name = Commands[2].Name
    /\ Commands[1].Handler # Commands[2].Handler
    /\ Len(execs) = 2
    /\ \A i \in DOMAIN execs :
         /\ execs[i].cmd = Commands[2].Name
         /\ execs[i].invoked = << [handler |-> Commands[2].Handler,
                                   input |-> InputOf(i)] >>
    /\ execs[1].pc = "Completed"
    /\ execs[1].returned # << >>

====
